---- MODULE Spec2Model ----
(***************************************************************************)
(* A model of the ISEK tool layer:                                         *)
(*   - ToolBox (src/isek/agent/toolbox.py): the registry of local          *)
(*     callables, the cache of tools discovered from an MCP server over    *)
(*     HTTP, schema synthesis and the dispatch of a tool call;             *)
(*   - MCPHandler (src/isek/agent/tools/mcp_handler.py) and MCPTool        *)
(*     (src/isek/agent/tools/base.py): the stdio protocol client.          *)
(* The two halves share no state in the source; SpecToolBox and SpecMCP    *)
(* are their two specifications.  SpecSchema applies the two schema        *)
(* synthesizers, ToolBox._function_to_schema and FunctionTool.to_schema    *)
(* (tools/base.py), to a family of signatures.                             *)
(* The modules are modelled as if every name they use resolved: base.py    *)
(* uses inspect and toolbox.py uses ABC and abstractmethod without         *)
(* importing them.                                                         *)
(***************************************************************************)
EXTENDS Integers, Sequences, FiniteSets, TLC

VARIABLES
    all_tools,          \* ToolBox.all_tools: ordered dict, a sequence of [name, func]
    mcp_tools,          \* ToolBox.mcp_tools: name -> descriptor as listed by the server
    tool_schemas,       \* ToolBox.tool_schemas: name -> schema
    tool_descriptions,  \* ToolBox.tool_descriptions: name -> description text
    mcp_server_url,     \* ToolBox.mcp_server_url: "None" or the base URL
    lastCall,           \* the last ToolBox operation and what its caller observed
    session,            \* MCPHandler.session: 0 for None, else the id of a ClientSession
    exit_stack,         \* MCPHandler.exit_stack: the contexts entered, oldest first
    handshaken,         \* ids of the ClientSessions whose initialize() succeeded
    broken,             \* ids of the ClientSessions whose server process is gone
    spawned,            \* number of server processes spawned so far
    obtained,           \* names of the MCPTool objects handed out by get_available_tools
    delivered,          \* number of requests written to a live server process
    connectCalled,      \* connect_to_server has been called on this handler
    closedReady,        \* cleanup has completed on a handler whose session was ready
    lastOp,             \* the last MCPHandler operation and what its caller observed
    signature,          \* the parameters of the function handed to a schema synthesizer
    synth,              \* the last schema synthesized from it, and by which synthesizer
    regPc,              \* where a register_tool call in progress stands
    regFunc,            \* the callable that call is registering
    seen,               \* what the last observer of the registry saw
    inflight            \* MCPHandler coroutines suspended at an await

tbVars == <<all_tools, mcp_tools, tool_schemas, tool_descriptions, mcp_server_url, lastCall>>
mcpVars == <<session, exit_stack, handshaken, broken, spawned, obtained, delivered,
             connectCalled, closedReady, lastOp>>
vars == <<all_tools, mcp_tools, tool_schemas, tool_descriptions, mcp_server_url, lastCall,
          session, exit_stack, handshaken, broken, spawned, obtained, delivered,
          connectCalled, closedReady, lastOp, signature, synth,
          regPc, regFunc, seen, inflight>>
schemaVars == <<signature, synth>>
stepVars == <<regPc, regFunc, seen, inflight>>

(***************************************************************************)
(* Bounds of the model.                                                    *)
(***************************************************************************)
\* longest list handed to register_tools
MaxBatch == 2
\* number of connect_to_server calls that get as far as spawning a process
MaxSpawn == 2
\* number of requests that reach a live server process
MaxDelivered == 2

(***************************************************************************)
(* Python values and helpers.                                              *)
(***************************************************************************)
EmptyMap == [k \in {} |-> 0]

Range(s) == {s[i] : i \in 1..Len(s)}

\* Python exceptions are records; the classes below all derive from Exception.
ExceptionSubclasses ==
    {"ValueError", "JSONDecodeError", "TypeError", "RuntimeError", "AttributeError",
     "ConnectionError", "HTTPError", "McpError", "ClosedResourceError",
     "BrokenResourceError", "ValidationError", "OSError"}

\* class -> its bases among the classes an except clause of the source names
IsInstance(exc, cls) ==
    \/ exc = cls
    \/ cls = "Exception" /\ exc \in ExceptionSubclasses
    \/ cls = "ValueError" /\ exc = "JSONDecodeError"

Returned(v) == [kind |-> "return", val |-> v, exc |-> "", invoked |-> <<>>]
Raised(cls, m) == [kind |-> "raise", val |-> m, exc |-> cls, invoked |-> <<>>]

(***************************************************************************)
(* The callables handed to register_tool.  A parameter is                  *)
(* [name, kind, ann, hasDefault] as inspect.signature reports it.          *)
(***************************************************************************)
Param(n, k, a, d) == [name |-> n, kind |-> k, ann |-> a, hasDefault |-> d]

\* def add(a: int, b: int): return a + b      (documented)
FnAdd ==
    [id |-> 1, name |-> "add", inspectable |-> TRUE, doc |-> "Add two numbers.",
     params |-> <<Param("a", "POSITIONAL_OR_KEYWORD", "int", FALSE),
                  Param("b", "POSITIONAL_OR_KEYWORD", "int", FALSE)>>,
     body |-> "sum"]

\* def add(x: int, y: str = "hi"): return None      (no docstring)
FnAdd2 ==
    [id |-> 2, name |-> "add", inspectable |-> TRUE, doc |-> "",
     params |-> <<Param("x", "POSITIONAL_OR_KEYWORD", "int", FALSE),
                  Param("y", "POSITIONAL_OR_KEYWORD", "str", TRUE)>>,
     body |-> "none"]

\* a callable named add for which inspect.signature raises ValueError (a C builtin)
FnOpaque ==
    [id |-> 3, name |-> "add", inspectable |-> FALSE, doc |-> "",
     params |-> <<>>, body |-> "none"]

\* def echo(self, msg: Optional[str] = None, *args, **kwargs): raise RuntimeError("boom")
FnEcho ==
    [id |-> 4, name |-> "echo", inspectable |-> TRUE, doc |-> "Echo.",
     params |-> <<Param("self", "POSITIONAL_OR_KEYWORD", "empty", TRUE),
                  Param("msg", "POSITIONAL_OR_KEYWORD", "Optional_str", TRUE),
                  Param("args", "VAR_POSITIONAL", "empty", FALSE),
                  Param("kwargs", "VAR_KEYWORD", "empty", FALSE)>>,
     body |-> "raise"]

Callables == {FnAdd, FnAdd2, FnOpaque, FnEcho}

ToolNames == {"add", "echo"}

(***************************************************************************)
(* ToolBox._function_to_schema                                             *)
(***************************************************************************)
\* type_map.get(annotation, "string")
TypeMapGet(ann) ==
    CASE ann = "str" -> "string"
      [] ann = "int" -> "integer"
      [] ann = "float" -> "number"
      [] ann = "bool" -> "boolean"
      [] ann = "list" -> "array"
      [] ann = "dict" -> "object"
      [] ann = "NoneType" -> "null"
      [] OTHER -> "string"

\* Optional[X] / Union[X, None] is unwrapped to X; a wider Union is left alone
UnwrapOptional(ann) ==
    CASE ann = "Optional_str" -> "str"
      [] ann = "Optional_int" -> "int"
      [] OTHER -> ann

JsonType(ann) ==
    IF UnwrapOptional(ann) # "empty" THEN TypeMapGet(UnwrapOptional(ann)) ELSE "string"

InProperties(p) ==
    /\ ~(p.name = "self" /\ p.kind = "POSITIONAL_OR_KEYWORD")
    /\ p.kind \notin {"VAR_POSITIONAL", "VAR_KEYWORD"}

ParamDescription(p) ==
    <<"Parameter '", p.name, "' of type ", UnwrapOptional(p.ann)>>
        \o (IF p.hasDefault THEN <<" (default)">> ELSE <<>>)

IsRequired(p) ==
    /\ ~p.hasDefault
    /\ p.name # "self"
    /\ p.kind # "VAR_POSITIONAL"
    /\ p.kind # "VAR_KEYWORD"

DocOrPlaceholder(func) ==
    IF func.doc # "" THEN <<func.doc>>
    ELSE <<"No description provided for tool ", func.name, ".">>

\* the schema, or the ValueError that inspect.signature raised
function_to_schema(func) ==
    IF ~func.inspectable
    THEN Raised("ValueError", <<"Failed to get signature for function '", func.name, "'">>)
    ELSE LET ps == SelectSeq(func.params, InProperties)
             req == SelectSeq(func.params, IsRequired)
         IN Returned(
              [name |-> func.name,
               description |-> DocOrPlaceholder(func),
               properties |-> [n \in {p.name : p \in Range(ps)} |->
                                 LET p == CHOOSE q \in Range(ps) : q.name = n
                                 IN [type |-> JsonType(p.ann),
                                     description |-> ParamDescription(p)]],
               required |-> [i \in 1..Len(req) |-> req[i].name]])

(***************************************************************************)
(* FunctionTool of toolbox.py: _build_schema.                              *)
(***************************************************************************)
\* line 440: type_map is a local of ToolBox._function_to_schema and is bound neither
\* in _build_schema nor in the module, so the lookup raises NameError; the line runs
\* for a parameter whose annotation, once unwrapped, is not empty
ReadsTypeMap(p) == InProperties(p) /\ UnwrapOptional(p.ann) # "empty"

\* lines 420-468: the schema, or the error raised while building it
build_schema(func) ==
    IF ~func.inspectable
    THEN Raised("ValueError", <<"no signature found for ", func.name>>)
    ELSE IF \E i \in 1..Len(func.params) : ReadsTypeMap(func.params[i])
    THEN Raised("NameError", <<"name 'type_map' is not defined">>)
    ELSE LET ps == SelectSeq(func.params, InProperties)
             req == SelectSeq(func.params, IsRequired)
         IN Returned(
              [name |-> func.name,
               description |-> DocOrPlaceholder(func),
               properties |-> [n \in {p.name : p \in Range(ps)} |->
                                 LET p == CHOOSE q \in Range(ps) : q.name = n
                                 IN [type |-> "string",
                                     description |-> ParamDescription(p)]],
               required |-> [i \in 1..Len(req) |-> req[i].name]])

(***************************************************************************)
(* FunctionTool of tools/base.py: to_schema, _get_parameter_properties,    *)
(* _get_required_parameters, _python_type_to_json_type.                    *)
(***************************************************************************)
\* lines 124-134: type_map.get(python_type, "string"); the annotation is looked up as
\* it stands
python_type_to_json_type(python_type) ==
    CASE python_type = "str" -> "string"
      [] python_type = "int" -> "integer"
      [] python_type = "float" -> "number"
      [] python_type = "bool" -> "boolean"
      [] python_type = "list" -> "array"
      [] python_type = "dict" -> "object"
      [] python_type = "NoneType" -> "null"
      [] OTHER -> "string"

\* lines 96-105: every parameter but the one named self
get_parameter_properties(func) ==
    LET ps == SelectSeq(func.params, LAMBDA p : p.name # "self")
    IN [n \in {p.name : p \in Range(ps)} |->
          LET p == CHOOSE q \in Range(ps) : q.name = n
              param_type == IF p.ann # "empty" THEN p.ann ELSE "Any"
          IN [type |-> python_type_to_json_type(param_type),
              description |-> <<"Parameter '", n, "' of type ", param_type>>]]

\* lines 113-116
get_required_parameters(func) ==
    LET req == SelectSeq(func.params, LAMBDA p : p.name # "self" /\ ~p.hasDefault)
    IN [i \in 1..Len(req) |-> req[i].name]

\* BaseTool.to_schema (lines 25-42) on a FunctionTool
to_schema(func) ==
    [name |-> func.name,
     description |-> IF func.doc # "" THEN <<func.doc>>
                     ELSE <<"No description provided for ", func.name>>,
     properties |-> get_parameter_properties(func),
     required |-> get_required_parameters(func)]

(***************************************************************************)
(* The schema synthesizers applied to signatures (SpecSchema).  A          *)
(* signature is, in the order Python requires: an optional self, an        *)
(* optional x with any annotation and with or without a default, an        *)
(* optional y: str = "hi", an optional *args, an optional keyword-only     *)
(* z: int and an optional **kwargs.                                        *)
(***************************************************************************)
Annotations ==
    {"empty", "str", "int", "float", "bool", "list", "dict", "NoneType",
     "Optional_str", "Optional_int", "Union_int_str", "List_int", "Decimal"}

OneOrNone(p) == {<<>>, <<p>>}

Signatures ==
    {r \o x \o y \o a \o z \o k :
        r \in OneOrNone(Param("self", "POSITIONAL_OR_KEYWORD", "empty", FALSE)),
        x \in {<<>>} \cup {<<Param("x", "POSITIONAL_OR_KEYWORD", ann, d)>> :
                               ann \in Annotations, d \in BOOLEAN},
        y \in OneOrNone(Param("y", "POSITIONAL_OR_KEYWORD", "str", TRUE)),
        a \in OneOrNone(Param("args", "VAR_POSITIONAL", "empty", FALSE)),
        z \in OneOrNone(Param("z", "KEYWORD_ONLY", "int", FALSE)),
        k \in OneOrNone(Param("kwargs", "VAR_KEYWORD", "empty", FALSE))}

\* def f(<signature>): ...
AsFunction(sig) ==
    [id |-> 5, name |-> "f", inspectable |-> TRUE, doc |-> "", params |-> sig,
     body |-> "none"]

NoSynth == [by |-> "none", exc |-> "", properties |-> EmptyMap, required |-> <<>>]

\* a synthesizer raised exc instead of returning a schema
Failed(by, exc) == [NoSynth EXCEPT !.by = by, !.exc = exc]

Synthesized(by, schema) ==
    [by |-> by,
     exc |-> "",
     properties |-> [n \in DOMAIN schema.properties |-> schema.properties[n].type],
     required |-> schema.required]

SchemaIdle == signature = <<>> /\ synth = NoSynth

FunctionToSchema ==
    /\ synth' = Synthesized("ToolBox._function_to_schema",
                            function_to_schema(AsFunction(signature)).val)
    /\ UNCHANGED <<signature, tbVars, mcpVars, stepVars>>

FunctionToolToSchema ==
    /\ synth' = Synthesized("FunctionTool.to_schema", to_schema(AsFunction(signature)))
    /\ UNCHANGED <<signature, tbVars, mcpVars, stepVars>>

\* FunctionTool(f) of toolbox.py: __init__ builds the schema (line 408)
BuildSchema ==
    /\ LET built == build_schema(AsFunction(signature))
       IN synth' = IF built.kind = "raise"
                   THEN Failed("toolbox.FunctionTool._build_schema", built.exc)
                   ELSE Synthesized("toolbox.FunctionTool._build_schema", built.val)
    /\ UNCHANGED <<signature, tbVars, mcpVars, stepVars>>

(***************************************************************************)
(* The ordered dict all_tools.                                             *)
(***************************************************************************)
Keys(d) == [i \in 1..Len(d) |-> d[i].name]

HasKey(d, n) == \E i \in 1..Len(d) : d[i].name = n

Lookup(d, n) == d[CHOOSE i \in 1..Len(d) : d[i].name = n].func

\* a dict that puts a new key first
DictSetPrepend(d, n, f) ==
    IF HasKey(d, n)
    THEN [i \in 1..Len(d) |-> IF d[i].name = n THEN [name |-> n, func |-> f] ELSE d[i]]
    ELSE <<[name |-> n, func |-> f]>> \o d

\* d[n] = f : an existing key keeps its place, a new key goes last
DictSet(d, n, f) ==
    IF HasKey(d, n)
    THEN [i \in 1..Len(d) |-> IF d[i].name = n THEN [name |-> n, func |-> f] ELSE d[i]]
    ELSE Append(d, [name |-> n, func |-> f])

\* del d[n]
DictDel(d, n) == SelectSeq(d, LAMBDA e : e.name # n)

\* m[n] = v on a name -> value mapping whose order nothing reads
MapSet(m, n, v) == [k \in DOMAIN m \cup {n} |-> IF k = n THEN v ELSE m[k]]

(***************************************************************************)
(* ToolBox.register_tool, register_tools, get_tool, get_tool_names,        *)
(* get_tool_schemas.  A registry is the record of the three dicts a        *)
(* registration writes.                                                    *)
(***************************************************************************)
Registry == [all_tools |-> all_tools, tool_schemas |-> tool_schemas,
             tool_descriptions |-> tool_descriptions]

\* a registry that keeps the first callable stored under a name
StoreFunctionKeepFirst(tools, func) ==
    IF HasKey(tools, func.name) THEN tools ELSE DictSet(tools, func.name, func)

\* line 76: self.all_tools[name] = func
StoreFunction(tools, func) == DictSet(tools, func.name, func)

\* lines 81-85: the except clause: roll back and return normally
SchemaFailure(reg, stored, func, warned) ==
    [reg |-> [reg EXCEPT !.all_tools =
                 IF HasKey(stored, func.name) THEN DictDel(stored, func.name) ELSE stored],
     kind |-> "return", exc |-> "", warned |-> warned, schemaError |-> TRUE]

register_tool(reg, func) ==
    LET name == func.name
        warned == HasKey(reg.all_tools, name)
        stored == StoreFunction(reg.all_tools, func)
        sch == function_to_schema(func)
    IN IF sch.kind = "raise"
       THEN IF IsInstance(sch.exc, "ValueError") \/ IsInstance(sch.exc, "KeyError")
            THEN SchemaFailure(reg, stored, func, warned)
            ELSE [reg |-> [reg EXCEPT !.all_tools = stored],
                  kind |-> "raise", exc |-> sch.exc, warned |-> warned,
                  schemaError |-> TRUE]
       ELSE [reg |-> [all_tools |-> stored,
                      tool_schemas |-> MapSet(reg.tool_schemas, name, sch.val),
                      tool_descriptions |->
                          MapSet(reg.tool_descriptions, name, DocOrPlaceholder(func))],
             kind |-> "return", exc |-> "", warned |-> warned, schemaError |-> FALSE]

\* the for loop of register_tools: stops at the first registration that raises
RECURSIVE register_tools(_, _)
register_tools(reg, tools) ==
    IF tools = <<>>
    THEN [reg |-> reg, kind |-> "return", exc |-> "", warned |-> FALSE,
          schemaError |-> FALSE]
    ELSE LET first == register_tool(reg, Head(tools))
         IN IF first.kind = "raise" THEN first
            ELSE LET rest == register_tools(first.reg, Tail(tools))
                 IN [rest EXCEPT !.warned = first.warned \/ rest.warned,
                                 !.schemaError = first.schemaError \/ rest.schemaError]

\* None is modelled as the record with id 0
NoFunction == [id |-> 0, name |-> "", inspectable |-> FALSE, doc |-> "",
               params |-> <<>>, body |-> "none"]

get_tool(name) == IF HasKey(all_tools, name) THEN Lookup(all_tools, name) ELSE NoFunction

get_tool_names == Keys(all_tools)

ExportedNames == SelectSeq(Keys(all_tools), LAMBDA n : n \in DOMAIN tool_schemas)

get_tool_schemas == [i \in 1..Len(ExportedNames) |-> tool_schemas[ExportedNames[i]]]

NoCall == [op |-> "none", name |-> "", func |-> 0, arguments |-> "", extra |-> EmptyMap,
           kind |-> "return", exc |-> "", val |-> <<>>, invoked |-> <<>>,
           result |-> [t |-> "absent", v |-> 0],
           warned |-> FALSE, schemaError |-> FALSE,
           listed |-> [t |-> "none", names |-> {}]]

RegisterTool(func) ==
    LET r == register_tool(Registry, func)
    IN /\ all_tools' = r.reg.all_tools
       /\ tool_schemas' = r.reg.tool_schemas
       /\ tool_descriptions' = r.reg.tool_descriptions
       /\ lastCall' = [NoCall EXCEPT !.op = "register_tool", !.name = func.name,
                          !.func = func.id, !.kind = r.kind, !.exc = r.exc,
                          !.warned = r.warned, !.schemaError = r.schemaError]
       /\ UNCHANGED <<mcp_tools, mcp_server_url>>
       /\ UNCHANGED <<mcpVars, schemaVars, stepVars>>

RegisterTools(tools) ==
    LET r == register_tools(Registry, tools)
    IN /\ all_tools' = r.reg.all_tools
       /\ tool_schemas' = r.reg.tool_schemas
       /\ tool_descriptions' = r.reg.tool_descriptions
       /\ lastCall' = [NoCall EXCEPT !.op = "register_tools", !.kind = r.kind,
                          !.exc = r.exc, !.warned = r.warned,
                          !.schemaError = r.schemaError]
       /\ UNCHANGED <<mcp_tools, mcp_server_url>>
       /\ UNCHANGED <<mcpVars, schemaVars, stepVars>>

(***************************************************************************)
(* register_tool statement by statement, and the observers of the          *)
(* registry.  Under the cooperative scheduling of the event loop another   *)
(* task runs only while the running one is suspended at an await.          *)
(***************************************************************************)
\* a register_tool that awaits between storing the callable and storing its schema
SuspensionPointsAfterStore == {"stored"}

\* lines 58-90: register_tool is a plain def and _function_to_schema a plain call; there
\* is no await at which it is suspended
SuspensionPoints == {}

\* another task can run now
CanRun == regPc = "idle" \/ regPc \in SuspensionPoints

NoSchema == [name |-> "", description |-> <<>>, properties |-> EmptyMap, required |-> <<>>]

NoSeen == [name |-> "", func |-> 0, listed |-> FALSE, schema |-> NoSchema]

StepIdle ==
    /\ regPc = "idle"
    /\ regFunc = NoFunction
    /\ seen = NoSeen
    /\ inflight = {}

\* lines 69-76
RegisterStore(func) ==
    /\ CanRun
    /\ regPc = "idle"
    /\ all_tools' = StoreFunction(all_tools, func)
    /\ regPc' = "stored"
    /\ regFunc' = func
    /\ UNCHANGED <<mcp_tools, tool_schemas, tool_descriptions, mcp_server_url, lastCall,
                   seen, inflight>>
    /\ UNCHANGED <<mcpVars, schemaVars>>

\* lines 81-85
RegisterSchema ==
    /\ regPc = "stored"
    /\ LET sch == function_to_schema(regFunc)
       IN IF sch.kind = "raise"
          THEN /\ all_tools' = IF HasKey(all_tools, regFunc.name)
                               THEN DictDel(all_tools, regFunc.name) ELSE all_tools
               /\ regPc' = "idle"
               /\ regFunc' = NoFunction
               /\ UNCHANGED tool_schemas
          ELSE /\ tool_schemas' = MapSet(tool_schemas, regFunc.name, sch.val)
               /\ regPc' = "schema"
               /\ UNCHANGED <<all_tools, regFunc>>
    /\ UNCHANGED <<mcp_tools, tool_descriptions, mcp_server_url, lastCall, seen, inflight>>
    /\ UNCHANGED <<mcpVars, schemaVars>>

\* lines 87-90
RegisterDescription ==
    /\ regPc = "schema"
    /\ tool_descriptions' = MapSet(tool_descriptions, regFunc.name, DocOrPlaceholder(regFunc))
    /\ regPc' = "idle"
    /\ regFunc' = NoFunction
    /\ UNCHANGED <<all_tools, mcp_tools, tool_schemas, mcp_server_url, lastCall, seen,
                   inflight>>
    /\ UNCHANGED <<mcpVars, schemaVars>>

\* the schema get_tool_schemas exports under a name
ExportedSchema(name) ==
    IF \E i \in 1..Len(get_tool_schemas) : get_tool_schemas[i].name = name
    THEN get_tool_schemas[CHOOSE i \in 1..Len(get_tool_schemas) :
                            get_tool_schemas[i].name = name]
    ELSE NoSchema

\* another task calls get_tool, get_tool_names and get_tool_schemas (execute_tool_call
\* resolves a name as get_tool does)
Observe(name) ==
    /\ CanRun
    /\ seen' = [name |-> name, func |-> get_tool(name).id,
                listed |-> name \in Range(get_tool_names),
                schema |-> ExportedSchema(name)]
    /\ UNCHANGED <<tbVars, mcpVars, schemaVars, regPc, regFunc, inflight>>

\* the lists handed to register_tools: every list of 2..MaxBatch distinct callables
Batches ==
    UNION {{l \in [1..n -> Callables] : \A i, j \in 1..n : l[i] = l[j] => i = j} :
             n \in 2..MaxBatch}

(***************************************************************************)
(* MCP discovery over HTTP: _discover_mcp_tools, _mcp_tool_to_schema,      *)
(* refresh_mcp_tools.  A descriptor is one element of the JSON list the    *)
(* server answers GET /tools with; keys are the keys it carries.           *)
(***************************************************************************)
Descriptor(ks, n, ps, req) ==
    [isDict |-> TRUE, keys |-> ks, name |-> n,
     description |-> IF "description" \in ks THEN <<"remote tool">> ELSE <<>>,
     parameters |-> ps, required |-> req]

ParamA == [type |-> "number", description |-> <<"First number">>]

\* {"name": "add", "description": ..., "parameters": {"a": ..}, "required": ["a"]}
DescAdd == Descriptor({"name", "description", "parameters", "required"}, "add",
                      [n \in {"a"} |-> ParamA], <<"a">>)

\* {"name": "add", "required": ["a"]}: required names a parameter it does not declare
DescAddLoose == Descriptor({"name", "required"}, "add", EmptyMap, <<"a">>)

\* {"name": "echo", "parameters": {}}
DescEcho == Descriptor({"name", "parameters"}, "echo", EmptyMap, <<>>)

\* {"description": "anonymous"}: no name
DescNoName == Descriptor({"description"}, "", EmptyMap, <<>>)

\* a list element that is not a JSON object, e.g. the string "add"
DescNotDict == [isDict |-> FALSE, keys |-> {}, name |-> "", description |-> <<>>,
                parameters |-> EmptyMap, required |-> <<>>]

\* what GET /tools can answer: a failure, or a list of descriptors
ServerListings ==
    {<<>>, <<DescAdd>>, <<DescAddLoose>>, <<DescEcho, DescNoName>>,
     <<DescEcho, DescNotDict, DescAdd>>}

\* tool.get(key, default)
Get(tool, key, default) == IF key \in tool.keys THEN tool[key] ELSE default

mcp_tool_to_schema(tool) ==
    [name |-> tool.name,
     description |-> Get(tool, "description", <<"No description for MCP tool ", tool.name>>),
     properties |-> Get(tool, "parameters", EmptyMap),
     required |-> Get(tool, "required", <<>>)]

McpCache == [mcp_tools |-> mcp_tools, tool_schemas |-> tool_schemas,
             tool_descriptions |-> tool_descriptions]

\* lines 260-264: one pass of the loop body
DiscoverOne(c, tool) ==
    IF Get(tool, "name", "") # ""
    THEN [mcp_tools |-> MapSet(c.mcp_tools, tool.name, tool),
          tool_schemas |-> MapSet(c.tool_schemas, tool.name, mcp_tool_to_schema(tool)),
          tool_descriptions |->
              MapSet(c.tool_descriptions, tool.name,
                     Get(tool, "description", <<"No description for MCP tool ", tool.name>>))]
    ELSE c

\* lines 259-268: the loop; an element without .get raises AttributeError, which the
\* except clause swallows with the earlier elements already stored
RECURSIVE DiscoverLoop(_, _)
DiscoverLoop(c, tools) ==
    IF tools = <<>> THEN c
    ELSE IF ~Head(tools).isDict THEN c
    ELSE DiscoverLoop(DiscoverOne(c, Head(tools)), Tail(tools))

\* reply: [ok |-> FALSE] when the request fails, else [ok |-> TRUE, tools |-> listing]
discover_mcp_tools(c, reply) == IF reply.ok THEN DiscoverLoop(c, reply.tools) ELSE c

ServerReplies ==
    {[ok |-> FALSE, tools |-> <<>>]} \cup {[ok |-> TRUE, tools |-> l] : l \in ServerListings}

\* the names of the tools in the list that response.json() returned (line 257)
ListedNames(tools) ==
    {tools[i].name : i \in {j \in 1..Len(tools) : tools[j].isDict /\ Get(tools[j], "name", "") # ""}}

\* what GET /tools answered to the refresh: no request, a failure, or a listing
Listed(reply) ==
    IF mcp_server_url = "None" THEN [t |-> "none", names |-> {}]
    ELSE IF reply.ok THEN [t |-> "ok", names |-> ListedNames(reply.tools)]
    ELSE [t |-> "failed", names |-> {}]

RefreshMcpTools(reply) ==
    /\ IF mcp_server_url # "None"
       THEN LET c == discover_mcp_tools(McpCache, reply)
            IN /\ mcp_tools' = c.mcp_tools
               /\ tool_schemas' = c.tool_schemas
               /\ tool_descriptions' = c.tool_descriptions
       ELSE UNCHANGED <<mcp_tools, tool_schemas, tool_descriptions>>
    /\ lastCall' = [NoCall EXCEPT !.op = "refresh_mcp_tools", !.listed = Listed(reply)]
    /\ UNCHANGED <<all_tools, mcp_server_url>>
    /\ UNCHANGED <<mcpVars, schemaVars, stepVars>>

(***************************************************************************)
(* Dispatch: execute_tool_call, _execute_direct_tool, _execute_mcp_tool.   *)
(***************************************************************************)
\* Python values a tool or the server can hand back
PyInt(n) == [t |-> "int", v |-> n]
PyNone == [t |-> "None", v |-> 0]

\* no value: the tool was not run, or did not complete
NoResult == [t |-> "absent", v |-> 0]

\* str(value)
PyStr(x) == IF x.t = "int" THEN ToString(x.v) ELSE "None"

\* the texts a request can carry as function.arguments
JsonObjectAB == "{\"a\": 2, \"b\": 3}"
JsonObjectEmpty == "{}"
JsonArray == "[1, 2]"
NotJson == "not-json"
ArgumentTexts == {JsonObjectAB, JsonObjectEmpty, JsonArray, NotJson}

\* function.arguments: a str, or another object (the LLM client handed over a dict)
ArgumentValues ==
    {[isStr |-> FALSE, text |-> ""]} \cup {[isStr |-> TRUE, text |-> t] : t \in ArgumentTexts}

\* json.loads on the texts above
json_loads(text) ==
    CASE text = JsonObjectAB ->
           [kind |-> "return", type |-> "dict", val |-> [k \in {"a", "b"} |->
                                                          IF k = "a" THEN 2 ELSE 3]]
      [] text = JsonObjectEmpty -> [kind |-> "return", type |-> "dict", val |-> EmptyMap]
      [] text = JsonArray -> [kind |-> "return", type |-> "list", val |-> EmptyMap]
      [] OTHER -> [kind |-> "raise", type |-> "", val |-> EmptyMap]

\* a merge in which the first dict wins a collision
MergeFirstWins(a, b) ==
    [k \in DOMAIN a \cup DOMAIN b |-> IF k \in DOMAIN a THEN a[k] ELSE b[k]]

\* {**a, **b}
Merge(a, b) == [k \in DOMAIN a \cup DOMAIN b |-> IF k \in DOMAIN b THEN b[k] ELSE a[k]]

\* **extra_kwargs of execute_tool_call
ExtraKwargs == {EmptyMap, [k \in {"b"} |-> 10]}

ToolCalls ==
    {[hasName |-> FALSE, name |-> "", arguments |-> [isStr |-> TRUE, text |-> JsonObjectEmpty]]}
    \cup {[hasName |-> TRUE, name |-> n, arguments |-> a] :
            n \in ToolNames \cup {"ghost"}, a \in ArgumentValues}

\* func(**final_args): Python binds the keywords, then runs the body
Accepts(func) ==
    {func.params[i].name : i \in {j \in 1..Len(func.params) :
        func.params[j].kind \in {"POSITIONAL_OR_KEYWORD", "KEYWORD_ONLY"}}}

Needs(func) ==
    {func.params[i].name : i \in {j \in 1..Len(func.params) :
        /\ func.params[j].kind \in {"POSITIONAL_OR_KEYWORD", "KEYWORD_ONLY", "POSITIONAL_ONLY"}
        /\ ~func.params[j].hasDefault}}

HasVarKeyword(func) == \E i \in 1..Len(func.params) : func.params[i].kind = "VAR_KEYWORD"

Invoke(func, args) ==
    IF ~(Needs(func) \subseteq DOMAIN args)
    THEN [kind |-> "raise", exc |-> "TypeError", msg |-> <<"missing required argument">>,
          val |-> PyNone]
    ELSE IF ~HasVarKeyword(func) /\ ~(DOMAIN args \subseteq Accepts(func))
    THEN [kind |-> "raise", exc |-> "TypeError", msg |-> <<"unexpected keyword argument">>,
          val |-> PyNone]
    ELSE CASE func.body = "sum" ->
                [kind |-> "return", exc |-> "", msg |-> <<>>,
                 val |-> PyInt(args["a"] + args["b"])]
           [] func.body = "raise" ->
                [kind |-> "raise", exc |-> "RuntimeError", msg |-> <<"boom">>, val |-> PyNone]
           [] OTHER -> [kind |-> "return", exc |-> "", msg |-> <<>>, val |-> PyNone]

Invocation(backend, name, args) == [backend |-> backend, name |-> name, args |-> args]

\* an argument check that lets everything through: whatever it is handed counts as
\* the empty dict unless it is a JSON object
ParseArgumentsUnchecked(name, arguments) ==
    [kind |-> "return", exc |-> "", msg |-> <<>>,
     val |-> IF arguments.isStr /\ json_loads(arguments.text).type = "dict"
             THEN json_loads(arguments.text).val ELSE EmptyMap]

\* lines 187-193 and 218-224: the argument checks shared by both backends; the
\* result is the parsed dict or the exception raised
ParseArguments(name, arguments) ==
    IF ~arguments.isStr
    THEN [kind |-> "raise", exc |-> "ValueError", val |-> EmptyMap,
          msg |-> <<"Tool arguments for '", name, "' must be a JSON string, got ",
                    "<class 'dict'>">>]
    ELSE LET parsed == json_loads(arguments.text)
         IN IF parsed.kind = "raise"
            THEN [kind |-> "raise", exc |-> "JSONDecodeError", val |-> EmptyMap,
                  msg |-> <<"Expecting value: line 1 column 1 (char 0)">>]
            ELSE IF parsed.type # "dict"
            THEN [kind |-> "raise", exc |-> "ValueError", val |-> EmptyMap,
                  msg |-> <<"Parsed tool arguments for '", name,
                            "' must be a dictionary, got ", "<class 'list'>">>]
            ELSE [kind |-> "return", exc |-> "", val |-> parsed.val, msg |-> <<>>]

NoValueSentinel == "Tool executed successfully with no return value."

\* lines 186-198: the body of the try block of _execute_direct_tool
DirectTry(name, tool_call, extra_kwargs) ==
    LET func == Lookup(all_tools, name)
        parsed == ParseArguments(name, tool_call.arguments)
    IN IF parsed.kind = "raise"
       THEN [kind |-> "raise", exc |-> parsed.exc, val |-> parsed.msg, invoked |-> <<>>,
             result |-> NoResult]
       ELSE LET final_args == Merge(parsed.val, extra_kwargs)
                result == Invoke(func, final_args)
                call == <<Invocation("direct", name, final_args)>>
            IN IF result.kind = "raise"
               THEN [kind |-> "raise", exc |-> result.exc, val |-> result.msg,
                     invoked |-> call, result |-> NoResult]
               ELSE [kind |-> "return", exc |-> "", invoked |-> call,
                     result |-> result.val,
                     val |-> IF result.val # PyNone THEN <<PyStr(result.val)>>
                             ELSE <<NoValueSentinel>>]

\* an except clause that handles only ValueError
DirectHandlesValueErrorOnly(exc) == IsInstance(exc, "ValueError")

\* line 199: except Exception
DirectHandles(exc) == IsInstance(exc, "Exception")

\* a backend that calls the function a second time when the first call raised
execute_direct_tool_Retrying(name, tool_call, extra_kwargs) ==
    LET r == DirectTry(name, tool_call, extra_kwargs)
    IN IF r.kind = "raise"
       THEN [kind |-> "return", exc |-> "", invoked |-> r.invoked \o r.invoked,
             result |-> r.result,
             val |-> <<"Error executing direct tool '", name, "': ">> \o r.val]
       ELSE r

execute_direct_tool(name, tool_call, extra_kwargs) ==
    LET r == DirectTry(name, tool_call, extra_kwargs)
    IN IF r.kind = "raise" /\ DirectHandles(r.exc)
       THEN [kind |-> "return", exc |-> "", invoked |-> r.invoked, result |-> r.result,
             val |-> <<"Error executing direct tool '", name, "': ">> \o r.val]
       ELSE r

\* what POST /execute/<name> can do: the request fails, the status is an error, the
\* body is not JSON, or the body is a JSON value
HttpOutcomes ==
    {[step |-> "post", val |-> PyNone], [step |-> "status", val |-> PyNone],
     [step |-> "json", val |-> PyNone], [step |-> "ok", val |-> PyInt(5)],
     [step |-> "ok", val |-> PyNone]}

\* the server is only asked when the call is routed to _execute_mcp_tool
HttpOutcomesFor(tool_call) ==
    IF tool_call.hasName /\ ~HasKey(all_tools, tool_call.name)
       /\ tool_call.name \in DOMAIN mcp_tools
    THEN HttpOutcomes
    ELSE {[step |-> "ok", val |-> PyNone]}

\* lines 218-235: the body of the try block of _execute_mcp_tool
McpTry(name, tool_call, extra_kwargs, http) ==
    LET parsed == ParseArguments(name, tool_call.arguments)
    IN IF parsed.kind = "raise"
       THEN [kind |-> "raise", exc |-> parsed.exc, val |-> parsed.msg, invoked |-> <<>>,
             result |-> NoResult]
       ELSE LET final_args == Merge(parsed.val, extra_kwargs)
                call == <<Invocation("mcp", name, final_args)>>
            IN CASE http.step = "post" ->
                      [kind |-> "raise", exc |-> "ConnectionError",
                       val |-> <<"connection refused">>, invoked |-> call,
                       result |-> NoResult]
                 [] http.step = "status" ->
                      [kind |-> "raise", exc |-> "HTTPError",
                       val |-> <<"500 Server Error">>, invoked |-> call,
                       result |-> NoResult]
                 [] http.step = "json" ->
                      [kind |-> "raise", exc |-> "JSONDecodeError",
                       val |-> <<"Expecting value: line 1 column 1 (char 0)">>,
                       invoked |-> call, result |-> NoResult]
                 [] OTHER ->
                      [kind |-> "return", exc |-> "", val |-> <<PyStr(http.val)>>,
                       invoked |-> call, result |-> http.val]

\* line 236: except Exception
McpHandles(exc) == IsInstance(exc, "Exception")

execute_mcp_tool(name, tool_call, extra_kwargs, http) ==
    LET r == McpTry(name, tool_call, extra_kwargs, http)
    IN IF r.kind = "raise" /\ McpHandles(r.exc)
       THEN [kind |-> "return", exc |-> "", invoked |-> r.invoked, result |-> r.result,
             val |-> <<"Error executing MCP tool '", name, "': ">> \o r.val]
       ELSE r

\* a dispatch that checks the arguments before it resolves the name
execute_tool_call_ArgumentsFirst(tool_call, extra_kwargs, http) ==
    LET parsed == ParseArguments(tool_call.name, tool_call.arguments)
    IN IF parsed.kind = "raise"
       THEN [kind |-> "return", exc |-> "", invoked |-> <<>>, result |-> NoResult,
             val |-> <<"Error executing direct tool '", tool_call.name, "': ">>
                         \o parsed.msg]
       ELSE IF HasKey(all_tools, tool_call.name)
       THEN execute_direct_tool(tool_call.name, tool_call, extra_kwargs)
       ELSE IF tool_call.name \in DOMAIN mcp_tools
       THEN execute_mcp_tool(tool_call.name, tool_call, extra_kwargs, http)
       ELSE [kind |-> "return", exc |-> "", invoked |-> <<>>, result |-> NoResult,
             val |-> <<"Tool '", tool_call.name,
                       "' not found in either direct tools or MCP tools.">>]

\* line 168
NotFoundMessage(name) ==
    <<"Tool '", name, "' not found in either direct tools or MCP tools.">>

execute_tool_call(tool_call, extra_kwargs, http) ==
    IF ~tool_call.hasName
    THEN [kind |-> "return", exc |-> "", invoked |-> <<>>, result |-> NoResult,
          val |-> <<"Invalid tool_call object: missing 'function.name' attribute.">>]
    ELSE IF HasKey(all_tools, tool_call.name)
    THEN execute_direct_tool(tool_call.name, tool_call, extra_kwargs)
    ELSE IF tool_call.name \in DOMAIN mcp_tools
    THEN execute_mcp_tool(tool_call.name, tool_call, extra_kwargs, http)
    ELSE [kind |-> "return", exc |-> "", invoked |-> <<>>, result |-> NoResult,
          val |-> NotFoundMessage(tool_call.name)]

ExecuteToolCall(tool_call, extra_kwargs, http) ==
    LET r == execute_tool_call(tool_call, extra_kwargs, http)
    IN /\ lastCall' = [NoCall EXCEPT !.op = "execute_tool_call", !.name = tool_call.name,
                          !.arguments = IF tool_call.arguments.isStr
                                        THEN tool_call.arguments.text ELSE "<dict>",
                          !.extra = extra_kwargs,
                          !.kind = r.kind, !.exc = r.exc, !.val = r.val,
                          !.invoked = r.invoked, !.result = r.result]
       /\ UNCHANGED <<all_tools, mcp_tools, tool_schemas, tool_descriptions, mcp_server_url>>
       /\ UNCHANGED <<mcpVars, schemaVars, stepVars>>

(***************************************************************************)
(* The ToolBox specification.  __init__ leaves every dict empty and, when  *)
(* a server URL is given, runs one discovery.                              *)
(***************************************************************************)
EmptyCache == [mcp_tools |-> EmptyMap, tool_schemas |-> EmptyMap,
               tool_descriptions |-> EmptyMap]

NoOp == [op |-> "none", path |-> "", nested |-> FALSE, kind |-> "return", exc |-> "",
         wire |-> "none", answer |-> "none", entered |-> 0, released |-> 0]

\* MCPHandler.__init__
McpIdle ==
    /\ session = 0
    /\ exit_stack = <<>>
    /\ handshaken = {}
    /\ broken = {}
    /\ spawned = 0
    /\ obtained = {}
    /\ delivered = 0
    /\ connectCalled = FALSE
    /\ closedReady = FALSE
    /\ lastOp = NoOp

InitToolBox ==
    /\ all_tools = <<>>
    /\ lastCall = NoCall
    /\ \/ /\ mcp_server_url = "None"
          /\ mcp_tools = EmptyMap
          /\ tool_schemas = EmptyMap
          /\ tool_descriptions = EmptyMap
       \/ /\ mcp_server_url = "http://mcp"
          /\ \E reply \in ServerReplies :
               LET c == discover_mcp_tools(EmptyCache, reply)
               IN /\ mcp_tools = c.mcp_tools
                  /\ tool_schemas = c.tool_schemas
                  /\ tool_descriptions = c.tool_descriptions
    /\ McpIdle
    /\ SchemaIdle
    /\ StepIdle

NextToolBox ==
    \/ \E func \in Callables : RegisterTool(func)
    \/ \E tools \in Batches : RegisterTools(tools)
    \/ \E reply \in ServerReplies : RefreshMcpTools(reply)
    \/ \E tool_call \in ToolCalls, extra_kwargs \in ExtraKwargs :
         \E http \in HttpOutcomesFor(tool_call) :
           ExecuteToolCall(tool_call, extra_kwargs, http)

SpecToolBox == InitToolBox /\ [][NextToolBox]_vars

(***************************************************************************)
(* MCPHandler (mcp_handler.py) and MCPTool (tools/base.py).                *)
(* exit_stack holds one entry per context entered: the stdio transport     *)
(* (with the server process it spawned) and the ClientSession on it.       *)
(***************************************************************************)
Context(k, id) == [kind |-> k, id |-> id]

\* the transport of ClientSession id is open while its stdio context is on the stack
\* and its server process has not gone away
TransportLive(id) ==
    /\ \E i \in 1..Len(exit_stack) : exit_stack[i] = Context("stdio", id)
    /\ id \notin broken

\* the session the handler holds completed its handshake on a transport that is open
Ready == session \in handshaken /\ TransportLive(session)

ScriptPaths == {"server.py", "server.js", "server.sh"}

\* a check that accepts every path
SupportedScriptAny(path) == TRUE

\* lines 39-42
SupportedScript(path) == path \in {"server.py", "server.js"}

\* how far a connect gets: the spawn fails, ClientSession cannot be entered, the
\* initialize handshake fails, or everything succeeds
ConnectFates == {"spawn_fails", "session_fails", "initialize_fails", "ok"}

\* lines 38-59; the except clause logs and re-raises, it releases nothing
connect_to_server(path, fate) ==
    LET id == spawned + 1
    IN IF ~SupportedScript(path)
       THEN [session |-> session, exit_stack |-> exit_stack, handshaken |-> handshaken,
             spawned |-> spawned, kind |-> "raise", exc |-> "ValueError"]
       ELSE IF fate = "spawn_fails"
       THEN [session |-> session, exit_stack |-> exit_stack, handshaken |-> handshaken,
             spawned |-> spawned, kind |-> "raise", exc |-> "OSError"]
       ELSE IF fate = "session_fails"
       THEN [session |-> session, exit_stack |-> Append(exit_stack, Context("stdio", id)),
             handshaken |-> handshaken, spawned |-> id,
             kind |-> "raise", exc |-> "RuntimeError"]
       ELSE LET entered == exit_stack \o <<Context("stdio", id), Context("session", id)>>
            IN IF fate = "initialize_fails"
               THEN [session |-> id, exit_stack |-> entered, handshaken |-> handshaken,
                     spawned |-> id, kind |-> "raise", exc |-> "McpError"]
               ELSE [session |-> id, exit_stack |-> entered,
                     handshaken |-> handshaken \cup {id}, spawned |-> id,
                     kind |-> "return", exc |-> ""]

ConnectToServer(path, fate) ==
    LET r == connect_to_server(path, fate)
    IN /\ r.spawned <= MaxSpawn
       /\ session' = r.session
       /\ exit_stack' = r.exit_stack
       /\ handshaken' = r.handshaken
       /\ spawned' = r.spawned
       /\ connectCalled' = TRUE
       /\ lastOp' = [NoOp EXCEPT !.op = "connect_to_server", !.path = path,
                        !.kind = r.kind, !.exc = r.exc,
                        !.entered = Len(r.exit_stack) - Len(exit_stack)]
       /\ UNCHANGED <<broken, obtained, delivered, closedReady>>
       /\ UNCHANGED <<tbVars, schemaVars, stepVars>>

\* a handler that never checks self.session
NotConnectedUnchecked(s) == FALSE

\* lines 67 and 97: if not self.session
NotConnected(s) == s = 0

\* what the server side of a request does: answers, reports an error, answers with
\* something that is not a valid response, or is gone
RequestFates == {"ok", "remote_error", "malformed_response", "transport_failure"}

\* one request on self.session (session.list_tools / session.call_tool).  A request on
\* a transport that cleanup released is refused by the stream with the library's own
\* error before anything is written.
SessionRequest(fate) ==
    IF session = 0
    THEN [kind |-> "raise", exc |-> "AttributeError", wire |-> "none", answer |-> "none",
          session |-> session]
    ELSE IF ~TransportLive(session)
    THEN [kind |-> "raise", exc |-> "ClosedResourceError", wire |-> "dead",
          answer |-> "none", session |-> session]
    ELSE CASE fate = "ok" ->
                [kind |-> "return", exc |-> "", wire |-> "live", answer |-> fate,
                 session |-> session]
           [] fate = "remote_error" ->
                [kind |-> "raise", exc |-> "McpError", wire |-> "live", answer |-> fate,
                 session |-> session]
           [] fate = "malformed_response" ->
                [kind |-> "raise", exc |-> "ValidationError", wire |-> "live",
                 answer |-> fate, session |-> session]
           [] OTHER ->
                [kind |-> "raise", exc |-> "BrokenResourceError", wire |-> "broken",
                 answer |-> fate, session |-> session]

\* the handler's own rejection, lines 67-68 and 97-98
NotConnectedError ==
    [kind |-> "raise", exc |-> "RuntimeError: Not connected to MCP server",
     wire |-> "none", answer |-> "none", session |-> session]

\* lines 67-87; the except clause logs and re-raises
get_available_tools(fate) ==
    IF NotConnected(session) THEN NotConnectedError ELSE SessionRequest(fate)

\* the tool lists a server can answer list_tools with
RemoteListings == {{}, {"add"}}

GetAvailableTools(fate, listing) ==
    LET r == get_available_tools(fate)
    IN /\ r.wire = "live" => delivered < MaxDelivered
       /\ delivered' = IF r.wire = "live" THEN delivered + 1 ELSE delivered
       /\ obtained' = IF r.kind = "return" THEN obtained \cup listing ELSE obtained
       /\ broken' = IF r.wire = "broken" THEN broken \cup {session} ELSE broken
       /\ session' = r.session
       /\ lastOp' = [NoOp EXCEPT !.op = "get_available_tools", !.kind = r.kind,
                        !.exc = r.exc, !.wire = r.wire, !.answer = r.answer]
       /\ UNCHANGED <<exit_stack, handshaken, spawned, connectCalled, closedReady>>
       /\ UNCHANGED <<tbVars, schemaVars, stepVars>>

\* an execute_tool that drops the session whenever the call fails
execute_tool_ForgetsSession(tool_name, fate) ==
    IF NotConnected(session) THEN NotConnectedError
    ELSE [SessionRequest(fate) EXCEPT
            !.session = IF SessionRequest(fate).kind = "raise" THEN 0 ELSE session]

\* lines 97-109; json.dumps of the keyword arguments succeeds, the except clause logs
\* and re-raises what session.call_tool raised; self.session is not assigned
execute_tool(tool_name, fate) ==
    IF NotConnected(session) THEN NotConnectedError ELSE SessionRequest(fate)

CallToolFrom(op, tool_name, fate, nested) ==
    LET r == execute_tool(tool_name, fate)
    IN /\ r.wire = "live" => delivered < MaxDelivered
       /\ delivered' = IF r.wire = "live" THEN delivered + 1 ELSE delivered
       /\ broken' = IF r.wire = "broken" THEN broken \cup {session} ELSE broken
       /\ session' = r.session
       /\ lastOp' = [NoOp EXCEPT !.op = op, !.nested = nested, !.kind = r.kind,
                        !.exc = r.exc, !.wire = r.wire, !.answer = r.answer]
       /\ UNCHANGED <<exit_stack, handshaken, spawned, obtained,
                      connectCalled, closedReady>>
       /\ UNCHANGED <<tbVars, schemaVars, stepVars>>

CallTool(op, tool_name, fate) == CallToolFrom(op, tool_name, fate, FALSE)

ExecuteTool(tool_name, fate) == CallTool("execute_tool", tool_name, fate)

\* MCPTool.execute_async (base.py 160-167): delegates to mcp_client.execute_tool
MCPToolExecuteAsync(tool_name, fate) ==
    /\ tool_name \in obtained
    /\ CallTool("MCPTool.execute_async", tool_name, fate)

\* an event loop that lets itself be driven while it is running
LoopAlreadyRunningIgnored(running) == FALSE

\* base.py 177: loop.run_until_complete(...) raises RuntimeError when the loop it is
\* called on is already running
LoopAlreadyRunning(running) == running

\* MCPTool.execute (base.py 169-178); running: the caller is itself a task of the
\* event loop.  The coroutine execute_async(**kwargs) is created before
\* run_until_complete is entered and is not started when that raises.
MCPToolExecute(tool_name, fate, running) ==
    /\ tool_name \in obtained
    /\ IF LoopAlreadyRunning(running)
       THEN /\ lastOp' = [NoOp EXCEPT !.op = "MCPTool.execute", !.nested = running,
                             !.kind = "raise",
                             !.exc = "RuntimeError: This event loop is already running"]
            /\ UNCHANGED <<session, exit_stack, handshaken, broken, spawned, obtained,
                           delivered, connectCalled, closedReady>>
            /\ UNCHANGED <<tbVars, schemaVars, stepVars>>
       ELSE CallToolFrom("MCPTool.execute", tool_name, fate, running)

\* a stack that exits its contexts but keeps them, so that the next close exits them again
acloseKeepsContexts(stack) == stack

\* AsyncExitStack.aclose(): every context on the stack is exited, newest first, and
\* the stack is left empty
aclose(stack) == <<>>

\* line 115; exiting a context may itself raise, after all of them were exited
cleanup(raises) ==
    [exit_stack |-> aclose(exit_stack),
     released |-> Len(exit_stack),
     kind |-> IF raises /\ exit_stack # <<>> THEN "raise" ELSE "return",
     exc |-> IF raises /\ exit_stack # <<>> THEN "RuntimeError" ELSE ""]

Cleanup(raises) ==
    LET r == cleanup(raises)
    IN /\ exit_stack' = r.exit_stack
       /\ closedReady' = (closedReady \/ Ready)
       /\ lastOp' = [NoOp EXCEPT !.op = "cleanup", !.kind = r.kind, !.exc = r.exc,
                        !.released = r.released]
       /\ UNCHANGED <<session, handshaken, broken, spawned, obtained, delivered,
                      connectCalled>>
       /\ UNCHANGED <<tbVars, schemaVars, stepVars>>

(***************************************************************************)
(* The coroutines of MCPHandler await by await.  A coroutine suspended at  *)
(* an await is in inflight; the handler holds no lock, so any other        *)
(* coroutine of the same handler may start or resume meanwhile.            *)
(***************************************************************************)
Suspended(op, id) == [op |-> op, id |-> id]

InFlight(op) == \E f \in inflight : f.op = op

\* lines 38-56 up to the await of session.initialize(): the process is spawned, the
\* ClientSession entered and assigned
ConnectBegin(path) ==
    /\ SupportedScript(path)
    /\ ~InFlight("connect_to_server")
    /\ spawned < MaxSpawn
    /\ LET id == spawned + 1
       IN /\ spawned' = id
          /\ exit_stack' = exit_stack \o <<Context("stdio", id), Context("session", id)>>
          /\ session' = id
          /\ inflight' = inflight \cup {Suspended("connect_to_server", id)}
    /\ connectCalled' = TRUE
    /\ UNCHANGED <<handshaken, broken, obtained, delivered, closedReady, lastOp>>
    /\ UNCHANGED <<tbVars, schemaVars, regPc, regFunc, seen>>

\* line 56 resumes: the handshake succeeded, failed, or its transport was released
\* while it was awaited
ConnectEnd(fate) ==
    \E f \in inflight :
        /\ f.op = "connect_to_server"
        /\ inflight' = inflight \ {f}
        /\ IF ~TransportLive(f.id)
           THEN /\ lastOp' = [NoOp EXCEPT !.op = "connect_to_server", !.kind = "raise",
                                 !.exc = "ClosedResourceError", !.wire = "dead"]
                /\ UNCHANGED handshaken
           ELSE IF fate = "ok"
           THEN /\ lastOp' = [NoOp EXCEPT !.op = "connect_to_server", !.wire = "live"]
                /\ handshaken' = handshaken \cup {f.id}
           ELSE /\ lastOp' = [NoOp EXCEPT !.op = "connect_to_server", !.kind = "raise",
                                 !.exc = "McpError", !.wire = "live"]
                /\ UNCHANGED handshaken
        /\ UNCHANGED <<session, exit_stack, broken, spawned, obtained, delivered,
                       connectCalled, closedReady>>
        /\ UNCHANGED <<tbVars, schemaVars, regPc, regFunc, seen>>

\* lines 67-71 up to the await of session.list_tools(): the request is written
ListBegin ==
    /\ ~NotConnected(session)
    /\ TransportLive(session)
    /\ ~InFlight("get_available_tools")
    /\ delivered < MaxDelivered
    /\ delivered' = delivered + 1
    /\ inflight' = inflight \cup {Suspended("get_available_tools", session)}
    /\ UNCHANGED <<session, exit_stack, handshaken, broken, spawned, obtained,
                   connectCalled, closedReady, lastOp>>
    /\ UNCHANGED <<tbVars, schemaVars, regPc, regFunc, seen>>

\* lines 71-87 resume: the listing arrived, or the transport was released while it
\* was awaited
ListEnd(listing) ==
    \E f \in inflight :
        /\ f.op = "get_available_tools"
        /\ inflight' = inflight \ {f}
        /\ IF ~TransportLive(f.id)
           THEN /\ lastOp' = [NoOp EXCEPT !.op = "get_available_tools", !.kind = "raise",
                                 !.exc = "ClosedResourceError", !.wire = "dead"]
                /\ UNCHANGED obtained
           ELSE /\ lastOp' = [NoOp EXCEPT !.op = "get_available_tools", !.wire = "live",
                                 !.answer = "ok"]
                /\ obtained' = obtained \cup listing
        /\ UNCHANGED <<session, exit_stack, handshaken, broken, spawned, delivered,
                       connectCalled, closedReady>>
        /\ UNCHANGED <<tbVars, schemaVars, regPc, regFunc, seen>>

\* lines 111-115: nothing in cleanup looks at what is in progress
CleanupNow ==
    /\ Cleanup(FALSE)
    /\ UNCHANGED inflight

\* ToolBox.__init__ without a server URL
ToolBoxIdle ==
    /\ all_tools = <<>>
    /\ mcp_tools = EmptyMap
    /\ tool_schemas = EmptyMap
    /\ tool_descriptions = EmptyMap
    /\ mcp_server_url = "None"
    /\ lastCall = NoCall

InitMCP == McpIdle /\ ToolBoxIdle /\ SchemaIdle /\ StepIdle

NextMCP ==
    \/ \E path \in ScriptPaths, fate \in ConnectFates : ConnectToServer(path, fate)
    \/ \E fate \in RequestFates, listing \in RemoteListings : GetAvailableTools(fate, listing)
    \/ \E tool_name \in {"add"}, fate \in RequestFates : ExecuteTool(tool_name, fate)
    \/ \E tool_name \in {"add"}, fate \in RequestFates : MCPToolExecuteAsync(tool_name, fate)
    \/ \E tool_name \in {"add"}, fate \in RequestFates, running \in BOOLEAN :
         MCPToolExecute(tool_name, fate, running)
    \/ \E raises \in BOOLEAN : Cleanup(raises)

SpecMCP == InitMCP /\ [][NextMCP]_vars

(***************************************************************************)
(* A ToolBox and an MCPHandler side by side.  The two objects share no     *)
(* state, so a step of one never enables, disables or changes a step of    *)
(* the other; each behaviour below is one in which only one of them acts.  *)
(***************************************************************************)
NextBoth ==
    \/ McpIdle /\ NextToolBox
    \/ ToolBoxIdle /\ NextMCP

SpecBoth == InitToolBox /\ [][NextBoth]_vars

(***************************************************************************)
(* The MCPHandler with its coroutines interleaved at their awaits.         *)
(***************************************************************************)
NextMCPSteps ==
    \/ \E path \in ScriptPaths : ConnectBegin(path)
    \/ \E fate \in {"ok", "initialize_fails"} : ConnectEnd(fate)
    \/ ListBegin
    \/ \E listing \in RemoteListings : ListEnd(listing)
    \/ CleanupNow

SpecMCPSteps == InitMCP /\ [][NextMCPSteps]_vars

(***************************************************************************)
(* Registrations statement by statement, with observers.                   *)
(***************************************************************************)
NextRegisterSteps ==
    \/ \E func \in Callables : RegisterStore(func)
    \/ RegisterSchema
    \/ RegisterDescription
    \/ \E name \in ToolNames : Observe(name)

SpecRegisterSteps == InitMCP /\ [][NextRegisterSteps]_vars

(***************************************************************************)
(* The specification of the schema synthesizers.                          *)
(***************************************************************************)
InitSchema ==
    /\ signature \in Signatures
    /\ synth = NoSynth
    /\ McpIdle
    /\ ToolBoxIdle
    /\ StepIdle

NextSchema ==
    \/ FunctionToSchema
    \/ FunctionToolToSchema
    \/ BuildSchema

SpecSchema == InitSchema /\ [][NextSchema]_vars

(***************************************************************************)
(* Properties of the ToolBox (SpecToolBox).                                *)
(***************************************************************************)
CallableById(id) == CHOOSE f \in Callables : f.id = id

Count(seq, x) == Cardinality({i \in 1..Len(seq) : seq[i] = x})

ExportedSchemaNames == [i \in 1..Len(get_tool_schemas) |-> get_tool_schemas[i].name]

\* C1: every execute_tool_call returns a text to its caller; no failure of argument
\* parsing, of the callable or of the remote call leaves it as an exception.
C1_DispatchAlwaysReturns ==
    lastCall.op = "execute_tool_call" =>
        /\ lastCall.kind = "return"
        /\ lastCall.exc = ""
        /\ lastCall.val # <<>>

\* a dispatch whose callable was invoked and raised, reported as a text
C1_Witness ==
    /\ lastCall.op = "execute_tool_call"
    /\ lastCall.invoked # <<>>
    /\ lastCall.invoked[1].backend = "direct"
    /\ lastCall.kind = "return"
    /\ lastCall.val = <<"Error executing direct tool '", "echo", "': ", "boom">>

\* C2: get_tool_schemas holds exactly one schema for each name of get_tool_names and
\* none for any other name, and the required list of every exported schema is a
\* subset of the keys of its properties.
C2_SchemasMatchNames ==
    /\ \A n \in Range(get_tool_names) : Count(ExportedSchemaNames, n) = 1
    /\ Range(ExportedSchemaNames) \subseteq Range(get_tool_names)
    /\ \A i \in 1..Len(get_tool_schemas) :
           Range(get_tool_schemas[i].required) \subseteq DOMAIN get_tool_schemas[i].properties

\* C7: a register_tool whose schema synthesis fails leaves all_tools, tool_schemas
\* and tool_descriptions exactly as they were before the call.
C7_FailedRegistrationChangesNothing ==
    [][(lastCall'.op = "register_tool" /\ lastCall'.schemaError)
         => UNCHANGED <<all_tools, tool_schemas, tool_descriptions>>]_vars

\* C8: a registration whose schema synthesis fails reaches the caller of
\* register_tool / register_tools as a SchemaError, never as a normal return.
C8_SchemaErrorReported ==
    (lastCall.op \in {"register_tool", "register_tools"} /\ lastCall.schemaError)
        => (lastCall.kind = "raise" /\ lastCall.exc = "SchemaError")

\* C9: after a successful register_tool the name resolves to the callable just
\* registered, is listed once, has exactly one exported schema, the one synthesized
\* from that callable; and the registration warned exactly when the name was already
\* registered, so of two registrations of a fresh name only the second warns.
C9_LastWriteWins ==
    /\ [](lastCall.op = "register_tool" /\ ~lastCall.schemaError =>
            /\ lastCall.kind = "return"
            /\ get_tool(lastCall.name) = CallableById(lastCall.func)
            /\ Count(get_tool_names, lastCall.name) = 1
            /\ Count(ExportedSchemaNames, lastCall.name) = 1
            /\ \A i \in 1..Len(get_tool_schemas) :
                   get_tool_schemas[i].name = lastCall.name =>
                       get_tool_schemas[i] = function_to_schema(CallableById(lastCall.func)).val)
    /\ [][(lastCall'.op = "register_tool" /\ ~lastCall'.schemaError) =>
            lastCall'.warned = HasKey(all_tools, lastCall'.name)]_vars

\* the second of two registrations under the name add: add(x, y="hi") over add(a, b)
C9_Witness ==
    /\ lastCall.op = "register_tool"
    /\ lastCall.func = FnAdd2.id
    /\ lastCall.warned
    /\ ~lastCall.schemaError
    /\ get_tool("add") = FnAdd2
    /\ get_tool_names = <<"add">>
    /\ Len(get_tool_schemas) = 1
    /\ get_tool_schemas[1].required = <<"x">>

\* C10 (as amended): for a name that is neither a registered callable nor a cached
\* MCP tool, execute_tool_call returns exactly "Tool '<name>' not found in either
\* direct tools or MCP tools.", whatever the arguments are, and invokes nothing.
C10_UnknownToolMessage ==
    (/\ lastCall.op = "execute_tool_call"
     /\ lastCall.name # ""
     /\ ~HasKey(all_tools, lastCall.name)
     /\ lastCall.name \notin DOMAIN mcp_tools)
        => /\ lastCall.kind = "return"
           /\ lastCall.val = <<"Tool '", lastCall.name,
                               "' not found in either direct tools or MCP tools.">>
           /\ lastCall.invoked = <<>>

\* the call of ghost with arguments that are not JSON
C10_Witness ==
    /\ lastCall.op = "execute_tool_call"
    /\ lastCall.name = "ghost"
    /\ lastCall.arguments = NotJson
    /\ lastCall.val = <<"Tool '", "ghost", "' not found in either direct tools or MCP tools.">>
    /\ lastCall.invoked = <<>>

\* C10 as stated: the message is exactly "Tool '<name>' not found".
C10_OriginalMessage ==
    (/\ lastCall.op = "execute_tool_call"
     /\ lastCall.name # ""
     /\ ~HasKey(all_tools, lastCall.name)
     /\ lastCall.name \notin DOMAIN mcp_tools)
        => /\ lastCall.kind = "return"
           /\ lastCall.val = <<"Tool '", lastCall.name, "' not found">>
           /\ lastCall.invoked = <<>>

\* the last dispatch resolved its name to a registered callable or a cached MCP tool
Resolved ==
    /\ lastCall.op = "execute_tool_call"
    /\ lastCall.name # ""
    /\ (HasKey(all_tools, lastCall.name) \/ lastCall.name \in DOMAIN mcp_tools)

\* the text both backends start their error report with
ErrorPrefix ==
    IF HasKey(all_tools, lastCall.name)
    THEN <<"Error executing direct tool '", lastCall.name, "': ">>
    ELSE <<"Error executing MCP tool '", lastCall.name, "': ">>

\* C11: for a registered tool, local or MCP, arguments that are not a string, are not
\* JSON or are JSON but not an object make execute_tool_call return an error text
\* without invoking the tool; the text for undecodable JSON is the decoder's message,
\* the texts for the two type errors say which type was expected.
C11_BadArgumentsRejected ==
    (Resolved /\ lastCall.arguments \in {"<dict>", NotJson, JsonArray}) =>
        /\ lastCall.kind = "return"
        /\ lastCall.invoked = <<>>
        /\ Len(lastCall.val) > 3
        /\ SubSeq(lastCall.val, 1, 3) = ErrorPrefix
        /\ LET detail == SubSeq(lastCall.val, 4, Len(lastCall.val))
           IN CASE lastCall.arguments = NotJson ->
                     detail = <<"Expecting value: line 1 column 1 (char 0)">>
                [] lastCall.arguments = JsonArray ->
                     /\ Len(detail) = 4
                     /\ detail[3] = "' must be a dictionary, got "
                [] OTHER ->
                     /\ Len(detail) = 4
                     /\ detail[3] = "' must be a JSON string, got "

\* a cached MCP tool called with text that is not JSON: nothing is posted
C11_Witness ==
    /\ Resolved
    /\ ~HasKey(all_tools, lastCall.name)
    /\ lastCall.arguments = NotJson
    /\ lastCall.invoked = <<>>
    /\ lastCall.val = <<"Error executing MCP tool '", lastCall.name, "': ",
                        "Expecting value: line 1 column 1 (char 0)">>

\* C12: the arguments a tool is invoked with, local or MCP, are the union of the
\* parsed JSON object and the extra keyword arguments of the dispatch: every key of
\* either, no other key, and on a collision the value of the extra arguments.
C12_MergedArguments ==
    (lastCall.op = "execute_tool_call" /\ lastCall.invoked # <<>>) =>
        LET args == lastCall.invoked[1].args
            parsed == json_loads(lastCall.arguments).val
        IN /\ Len(lastCall.invoked) = 1
           /\ DOMAIN args = DOMAIN parsed \cup DOMAIN lastCall.extra
           /\ \A k \in DOMAIN lastCall.extra : args[k] = lastCall.extra[k]
           /\ \A k \in DOMAIN parsed \ DOMAIN lastCall.extra : args[k] = parsed[k]

\* add called with {"a": 2, "b": 3} and the extra argument b=10: it ran on a=2, b=10
C12_Witness ==
    /\ lastCall.op = "execute_tool_call"
    /\ lastCall.arguments = JsonObjectAB
    /\ lastCall.extra = [k \in {"b"} |-> 10]
    /\ lastCall.invoked = <<Invocation("direct", "add", [k \in {"a", "b"} |->
                                                             IF k = "a" THEN 2 ELSE 10])>>
    /\ lastCall.val = <<"12">>

\* C13: when the tool of a dispatch completes, execute_tool_call returns the text
\* form of its result (add on {"a": 2, "b": 3} gives "5"), and the fixed sentence
\* "Tool executed successfully with no return value." when the result is None / null,
\* for a local callable and for an MCP tool alike.
C13_ResultAsText ==
    (lastCall.op = "execute_tool_call" /\ lastCall.result # NoResult) =>
        /\ lastCall.kind = "return"
        /\ lastCall.val = IF lastCall.result = PyNone
                          THEN <<"Tool executed successfully with no return value.">>
                          ELSE <<ToString(lastCall.result.v)>>
        /\ (/\ lastCall.invoked[1] = Invocation("direct", "add", [k \in {"a", "b"} |->
                                                                    IF k = "a" THEN 2 ELSE 3])
            /\ get_tool("add") = FnAdd) => lastCall.val = <<"5">>

\* a list without the name n
Without(names, n) == SelectSeq(names, LAMBDA m : m # n)

\* C22: get_tool_names lists every registered name once, in the order of
\* registration: a successful registration of a new name puts it last, that of a
\* name already listed leaves the list as it is, a failed registration leaves the
\* other names in their order, a refresh leaves the list alone; and get_tool_schemas
\* has one schema per listed name, the i-th being the schema of the i-th name.
C22_RegistrationOrder ==
    /\ [](/\ Len(get_tool_schemas) = Len(get_tool_names)
          /\ \A i \in 1..Len(get_tool_names) :
                 /\ get_tool_schemas[i].name = get_tool_names[i]
                 /\ get_tool_schemas[i] = tool_schemas[get_tool_names[i]]
                 /\ Count(get_tool_names, get_tool_names[i]) = 1)
    /\ [][/\ lastCall'.op = "register_tool" =>
                /\ Without(get_tool_names', lastCall'.name)
                     = Without(get_tool_names, lastCall'.name)
                /\ ~lastCall'.schemaError =>
                      get_tool_names' = IF lastCall'.warned THEN get_tool_names
                                        ELSE Append(get_tool_names, lastCall'.name)
          /\ lastCall'.op = "refresh_mcp_tools" => get_tool_names' = get_tool_names]_vars

\* echo was registered after add, and add was then registered again: add is still
\* first
C22_Witness ==
    /\ lastCall.op = "register_tool"
    /\ lastCall.name = "add"
    /\ lastCall.warned
    /\ ~lastCall.schemaError
    /\ get_tool_names = <<"add", "echo">>
    /\ Len(get_tool_schemas) = 2
    /\ get_tool_schemas[2].name = "echo"

\* C27: the schema exported for a name describes the tool that execute_tool_call
\* runs for that name: a name of all_tools is dispatched to the local callable, and
\* its exported schema is the one synthesized from that callable.
C27_SchemaDescribesDispatchedTool ==
    \A i \in 1..Len(get_tool_schemas) :
        HasKey(all_tools, get_tool_schemas[i].name) =>
            get_tool_schemas[i] = function_to_schema(get_tool(get_tool_schemas[i].name)).val

\* the names execute_tool_call resolves: those of all_tools and those of mcp_tools
ResolvableNames == Range(Keys(all_tools)) \cup DOMAIN mcp_tools

\* C28: a name is resolved by execute_tool_call exactly when get_tool_names lists it
\* and get_tool_schemas holds a schema for it, discovered MCP tools included.
C28_ResolvableIsAdvertised ==
    /\ \A n \in ResolvableNames :
           n \in Range(get_tool_names) /\ n \in Range(ExportedSchemaNames)
    /\ Range(get_tool_names) \cup Range(ExportedSchemaNames) \subseteq ResolvableNames

\* C29: after a refresh_mcp_tools that the server answered, the MCP tools are exactly
\* the tools listed in that answer, each with a cached schema and description, and a
\* name that is no longer listed is not in mcp_tools; a refresh whose request failed
\* leaves the three caches as they were.
C29_RefreshReplaces ==
    [][lastCall'.op = "refresh_mcp_tools" =>
          /\ lastCall'.listed.t = "ok" =>
                /\ DOMAIN mcp_tools' = lastCall'.listed.names
                /\ lastCall'.listed.names \subseteq DOMAIN tool_schemas'
                /\ lastCall'.listed.names \subseteq DOMAIN tool_descriptions'
          /\ lastCall'.listed.t = "failed" =>
                UNCHANGED <<mcp_tools, tool_schemas, tool_descriptions>>]_vars

(***************************************************************************)
(* Properties of the MCPHandler (SpecMCP).                                 *)
(***************************************************************************)
ToolOperations == {"get_available_tools", "execute_tool", "MCPTool.execute_async"}

\* C3: a connect_to_server that fails after entering a context returns with every
\* context released and no session left, and no later tool operation reaches a
\* server process unless the handshake of the current session succeeded.
C3_FailedConnectReleasesAll ==
    /\ (lastOp.op = "connect_to_server" /\ lastOp.kind = "raise" /\ lastOp.entered > 0)
           => (exit_stack = <<>> /\ session = 0)
    /\ (lastOp.op \in ToolOperations /\ lastOp.wire = "live") => session \in handshaken

\* C4: once cleanup has completed on a handler whose session was ready, every
\* execute_tool and every MCPTool execution fails with SessionClosed and attempts
\* nothing on the released transport.
C4_CallAfterCloseRejected ==
    (closedReady /\ lastOp.op \in {"execute_tool", "MCPTool.execute_async"})
        => /\ lastOp.kind = "raise"
           /\ lastOp.exc = "SessionClosed"
           /\ lastOp.wire = "none"

\* C5: on a handler on which connect_to_server was never called, get_available_tools
\* and execute_tool raise the not-connected error, write to no process and leave the
\* handler as __init__ made it.
C5_NotConnectedRejected ==
    (~connectCalled /\ lastOp.op \in ToolOperations)
        => /\ lastOp.kind = "raise"
           /\ lastOp.exc = "RuntimeError: Not connected to MCP server"
           /\ lastOp.wire = "none"
           /\ delivered = 0
           /\ session = 0
           /\ exit_stack = <<>>
           /\ handshaken = {}
           /\ spawned = 0
           /\ obtained = {}

\* execute_tool on a handler that was never connected
C5_Witness ==
    /\ ~connectCalled
    /\ lastOp.op = "execute_tool"
    /\ lastOp.kind = "raise"
    /\ lastOp.wire = "none"

\* C6: after any cleanup no context is held; and a cleanup that follows a cleanup,
\* directly or with no connect in between (no context is held when it starts),
\* returns normally, releases nothing and changes nothing.
C6_CleanupIdempotent ==
    /\ [](lastOp.op = "cleanup" => exit_stack = <<>>)
    /\ [][(lastOp'.op = "cleanup" /\ (lastOp.op = "cleanup" \/ exit_stack = <<>>)) =>
            /\ lastOp'.kind = "return"
            /\ lastOp'.released = 0
            /\ UNCHANGED <<session, exit_stack, handshaken, spawned, obtained, delivered>>]_vars

\* a cleanup that released nothing, after an earlier one closed a ready session
C6_Witness ==
    /\ closedReady
    /\ lastOp.op = "cleanup"
    /\ lastOp.released = 0
    /\ lastOp.kind = "return"
    /\ exit_stack = <<>>

\* execute_tool and the MCPTool execution that delegates to it
CallOperations == {"execute_tool", "MCPTool.execute_async"}

\* C14: a connect_to_server with a supported script on a handler whose session is ready
\* fails with AlreadyConnected, spawns no second process and leaves the session in
\* place.
C14_SecondConnectRefused ==
    [][(lastOp'.op = "connect_to_server" /\ SupportedScript(lastOp'.path) /\ Ready) =>
          /\ lastOp'.kind = "raise"
          /\ lastOp'.exc = "AlreadyConnected"
          /\ spawned' = spawned
          /\ UNCHANGED <<session, exit_stack, handshaken>>]_vars

C16_TransportFailureCloses ==
    (lastOp.op \in CallOperations /\ lastOp.answer = "transport_failure") =>
        NotConnected(session)

\* C17: connect_to_server with a script that is neither .py nor .js raises the
\* unsupported-script ValueError before anything is spawned or entered and leaves the
\* handler exactly as it was.
C17_UnsupportedScriptRejected ==
    [][(lastOp'.op = "connect_to_server" /\ lastOp'.path = "server.sh") =>
          /\ lastOp'.kind = "raise"
          /\ lastOp'.exc = "ValueError"
          /\ lastOp'.entered = 0
          /\ UNCHANGED <<session, exit_stack, handshaken, broken, spawned, obtained,
                         delivered>>]_vars

\* the rejected connect of a shell script on a fresh handler
C17_Witness ==
    /\ lastOp.op = "connect_to_server"
    /\ lastOp.path = "server.sh"
    /\ lastOp.kind = "raise"
    /\ lastOp.exc = "ValueError"
    /\ session = 0
    /\ exit_stack = <<>>
    /\ spawned = 0

C26_ClosedIsTerminal ==
    closedReady => (exit_stack = <<>> /\ ~Ready)

(***************************************************************************)
(* Properties of the schema synthesizers (SpecSchema).                     *)
(***************************************************************************)
\* the parameters of the signature that are neither self nor *args nor **kwargs
Shown ==
    {p \in Range(signature) :
        p.name # "self" /\ p.kind \notin {"VAR_POSITIONAL", "VAR_KEYWORD"}}

\* C19: whichever synthesizer made the schema, the keys of its properties are exactly
\* the parameters that are neither self nor *args nor **kwargs, and its required list
\* is exactly those of them that have no default; f(x: int, y: str = "hi") gives
\* properties {x, y} and required {x}.
C19_PropertiesAndRequired ==
    (synth.by # "none" /\ synth.exc = "") =>
        /\ DOMAIN synth.properties = {p.name : p \in Shown}
        /\ Range(synth.required) = {p.name : p \in {q \in Shown : ~q.hasDefault}}
        /\ Len(synth.required) = Cardinality(Range(synth.required))
        /\ signature = FnAdd2.params =>
               (DOMAIN synth.properties = {"x", "y"} /\ synth.required = <<"x">>)

SchemaTypes == {"string", "integer", "number", "boolean", "array", "object", "null"}

\* C20: whichever synthesizer made the schema, the type of every parameter in it is
\* the one the table gives for the annotation: str string, int integer, float number,
\* bool boolean, list array, dict object, None null, Optional[T] the type of T, and
\* string for any other or no annotation; it is always one of the seven types.
C20_TypeTable ==
    (synth.by # "none" /\ synth.exc = "") =>
        \A p \in Range(signature) :
            p.name \in DOMAIN synth.properties =>
                /\ synth.properties[p.name] \in SchemaTypes
                /\ synth.properties[p.name] =
                      CASE p.ann \in {"str", "Optional_str"} -> "string"
                        [] p.ann \in {"int", "Optional_int"} -> "integer"
                        [] p.ann = "float" -> "number"
                        [] p.ann = "bool" -> "boolean"
                        [] p.ann = "list" -> "array"
                        [] p.ann = "dict" -> "object"
                        [] p.ann = "NoneType" -> "null"
                        [] OTHER -> "string"

\* C30: the three synthesizers agree: for any signature each of them returns a
\* schema, with the properties keys, the type of every parameter and the required
\* list that ToolBox._function_to_schema gives for that signature.
C30_SynthesizersAgree ==
    synth.by # "none" =>
        LET ref == Synthesized(synth.by, function_to_schema(AsFunction(signature)).val)
        IN /\ synth.exc = ""
           /\ synth.properties = ref.properties
           /\ synth.required = ref.required

(***************************************************************************)
(* Properties of a ToolBox and an MCPHandler side by side (SpecBoth).      *)
(***************************************************************************)
\* C21: nothing is retried: one execute_tool_call calls the local function at most
\* once and posts at most one execute request, also when that fails; one
\* connect_to_server spawns at most one process; one get_available_tools or
\* execute_tool writes at most one request, and exactly one when it fails after
\* reaching the server.
C21_NoRetries ==
    /\ [](lastCall.op = "execute_tool_call" => Len(lastCall.invoked) <= 1)
    /\ [][/\ spawned' <= spawned + 1
          /\ delivered' <= delivered + 1
          /\ (/\ mcpVars' # mcpVars
              /\ lastOp'.op \in ToolOperations
              /\ lastOp'.kind = "raise"
              /\ lastOp'.wire = "live") => delivered' = delivered + 1]_vars

\* a dispatch whose one POST was refused
C21_Witness ==
    /\ lastCall.op = "execute_tool_call"
    /\ Len(lastCall.invoked) = 1
    /\ lastCall.invoked[1].backend = "mcp"
    /\ lastCall.val = <<"Error executing MCP tool '", lastCall.name, "': ",
                        "connection refused">>

(***************************************************************************)
(* Properties of registrations with observers (SpecRegisterSteps).         *)
(***************************************************************************)
\* C23: whatever another task sees of the registry while registrations run, a name
\* that resolves to a callable is listed and exported with the schema of that very
\* callable, and a name that does not resolve is neither listed nor exported.
C23_RegistrationAtomic ==
    seen.name # "" =>
        IF seen.func # 0
        THEN /\ seen.listed
             /\ seen.schema = function_to_schema(CallableById(seen.func)).val
        ELSE /\ ~seen.listed
             /\ seen.schema = NoSchema

\* add(x, y="hi") is being stored over add(a, b), its schema is not stored yet, and
\* the last observer saw add(a, b) whole
C23_Witness ==
    /\ regPc = "stored"
    /\ regFunc = FnAdd2
    /\ get_tool("add") = FnAdd2
    /\ "add" \in DOMAIN tool_schemas
    /\ tool_schemas["add"].required = <<"a", "b">>
    /\ seen.name = "add"
    /\ seen.func = FnAdd.id
    /\ seen.schema.required = <<"a", "b">>

(***************************************************************************)
(* Properties of the interleaved MCPHandler (SpecMCPSteps).                *)
(***************************************************************************)
\* C24: at most one connect_to_server / get_available_tools / cleanup of a handler
\* is in progress at any time, and the transport of an operation in progress is not
\* released under it.
C24_SessionOperationsSerialized ==
    /\ Cardinality(inflight) <= 1
    /\ \A f \in inflight : TransportLive(f.id)

====
